---- MODULE Spec2Model ----
(***************************************************************************)
(* Model of geo_snapshot_export.py: the filter-combination pipeline of     *)
(* generate_figures, the static page assembled by build_html and the       *)
(* inline toggle script (toggle / applyVisibility) of the exported page    *)
(* (Spec); the city performance table (CitySpec); the platform section     *)
(* (PlatformSpec); ensure_map_caches (MapCacheSpec); and a whole run from  *)
(* ensure_map_caches to the return, made twice on one input (ExportSpec).  *)
(*                                                                         *)
(* Strings.  A key such as comp_pct_6band__ftb__excl is modelled as the    *)
(* sequence of its underscore-free words and its underscores:              *)
(*   <<"comp","_","pct","_","6band","_","_","ftb","_","_","excl">>.        *)
(* Concatenation is \o; startsWith, endsWith, includes, replace, slice and *)
(* split('_') are computed on that sequence the way JavaScript computes    *)
(* them on the characters (every pattern the code uses begins and ends at  *)
(* a word boundary).                                                       *)
(***************************************************************************)
EXTENDS Integers, Sequences, FiniteSets, TLC

VARIABLES
    pc,            \* position of the export / of the page
    df,            \* geo.load_data(): the source dataset, a sequence of rows
    city_map_ok,   \* geo.load_city_map_data() is not None
    plz_map_ok,    \* geo.load_plz_map_data() is not None
    city_pop_ok,   \* Path(geo.CITY_POP_PATH).exists()
    figures,       \* generate_figures: the figure registry, key -> call
    city_tables,   \* generate_figures: suffix -> city performance table
    combo,         \* index of the next filter combination of the double loop
    visited,       \* the combinations entered so far, in order
    skipped,       \* suffixes of the combinations left by `continue`
    writes,        \* every key assigned into figures, in assignment order
    failed,        \* key whose metric call raised (<<>> when none did)
    divs,          \* page: wrap_<key> divs, key -> TRUE when shown
    placeholders,  \* page: base keys rendered as "Chart not available"
    tables,        \* page: data-city-table divs, suffix -> TRUE when shown
    activeState,   \* page: the activeState object of the script
    clicks,        \* page: number of toggle() calls made so far
    city_pop,      \* city table: pd.read_csv(city_pop_path), rows city, population
    city_dff,      \* city table: the strict view on city, customer_id, revenue
    sort_ties,     \* city table: how the build's sort orders equal populations
    city_tbl,      \* city table: the records stored in city_tables[suffix]
    caches_exist,  \* map caches: plz_cache.exists() and city_cache.exists()
    seeds_found,   \* map caches: _find_seeds_dir(...) is not None
    merge_map,     \* map caches: geo.PLZ_MERGE_MAP, postal code -> city name
    coords,        \* map caches: dim_plz_coordinates.csv
    pop,           \* map caches: dim_plz_population.csv, renamed columns
    txn,           \* map caches: df on plz_three_digits, customer_id, revenue, city
    plz_cache,     \* map caches: rows written to plz_map_data.parquet, by key
    plat_dff,      \* platform section: the strict view on channel_type, platform, customer_id
    plat_out,      \* platform section: the keys assigned and the selection passed
    events,        \* metadata: df on event_category, created_at
    meta,          \* generate_figures: the metadata of the sidebar
    run,           \* which run of generate_figures on this input is under way
    prev,          \* what the run before this one returned
    city_cache     \* map caches: rows written to city_map_data.parquet, by city

vars == <<pc, df, city_map_ok, plz_map_ok, city_pop_ok, figures, city_tables,
          combo, visited, skipped, writes, failed, divs, placeholders,
          tables, activeState, clicks, city_pop, city_dff, sort_ties, city_tbl,
          caches_exist, seeds_found, merge_map, coords, pop, txn, plz_cache, city_cache,
          plat_dff, plat_out, events, meta, run, prev>>

(***************************************************************************)
(* Bounds                                                                  *)
(***************************************************************************)
MaxRows == 2

\* toggle() calls explored on one page
MaxClicks == 2

(***************************************************************************)
(* String helpers (JavaScript / Python string methods)                     *)
(***************************************************************************)
U == "_"

S(w) == <<w>>

StartsWith(s, p) == Len(p) <= Len(s) /\ SubSeq(s, 1, Len(p)) = p

EndsWith(s, p) == Len(p) <= Len(s) /\ SubSeq(s, Len(s) - Len(p) + 1, Len(s)) = p

\* s.indexOf(p) counted from 1: the first position where p occurs, 0 if none
RECURSIVE IndexFrom(_, _, _)
IndexFrom(s, p, i) ==
    IF i + Len(p) - 1 > Len(s) THEN 0
    ELSE IF SubSeq(s, i, i + Len(p) - 1) = p THEN i
    ELSE IndexFrom(s, p, i + 1)

Includes(s, p) == \E i \in 1..(Len(s) - Len(p) + 1) : SubSeq(s, i, i + Len(p) - 1) = p

\* s.replace(p, r): only the first occurrence is replaced
Replace(s, p, r) ==
    LET i == IndexFrom(s, p, 1)
    IN  IF i = 0 THEN s
        ELSE SubSeq(s, 1, i - 1) \o r \o SubSeq(s, i + Len(p), Len(s))

\* s.slice(a, b) with 0-based a and exclusive b
Slice(s, a, b) == SubSeq(s, a + 1, b)

\* s.split('_'): the pieces between the underscores
RECURSIVE SplitFrom(_, _, _)
SplitFrom(s, i, cur) ==
    IF i > Len(s) THEN <<cur>>
    ELSE IF s[i] = U THEN <<cur>> \o SplitFrom(s, i + 1, <<>>)
    ELSE SplitFrom(s, i + 1, Append(cur, s[i]))

Split(s) == SplitFrom(s, 1, <<>>)

\* the elements of a sequence
SetOf(v) == { v[i] : i \in 1..Len(v) }

(***************************************************************************)
(* Module constants of the exporter                                        *)
(***************************************************************************)
FTB_OPTIONS ==
    << [label |-> "All", tag |-> "all"],
       [label |-> "FTB", tag |-> "ftb"],
       [label |-> "RB",  tag |-> "rb"] >>

RENEWAL_OPTIONS ==
    << [label |-> "Include", tag |-> "incl"],
       [label |-> "Exclude", tag |-> "excl"] >>

\* the grouping labels of the `for cm in [...]` loops, as their words
ColorModes == << <<"6", "Distance", "Bands">>, <<"3", "Geo", "Tiers">> >>

\* for metric in ['customers', 'revenue', 'spc']
VolMetrics == << S("customers"), S("revenue"), S("spc") >>

\* for m in ['customers', 'rev_per_1k', 'activation']
MapMetrics == << S("customers"), <<"rev", U, "per", U, "1k">>, S("activation") >>

\* ['Meta', 'Google', 'Direct', 'Organic']
PlatformCandidates == {"Meta", "Google", "Direct", "Organic"}

(***************************************************************************)
(* The source dataset                                                      *)
(***************************************************************************)
\* platform "NULL" stands for a missing value (removed by dropna)
RowValues == [ftb_rb : {"FTB", "RB"}, is_renewal : {0, 1}, platform : {"Meta", "NULL"}]

\* the dataframes of 1..MaxRows rows; row i carries the index label i
Datasets == UNION { [1..n -> RowValues] : n \in 1..MaxRows }

\* df.copy(): a view is the sequence of the index labels of its rows
AllRows(d) == [i \in 1..Len(d) |-> i]

(***************************************************************************)
(* generate_figures: keys                                                  *)
(***************************************************************************)
\* variant: both groupings get the same tag
TagAlways6band(cm) == "6band"

\* tag = '6band' if '6' in cm else '3tier'

Tag(cm) == IF \E i \in 1..Len(cm) : cm[i] = "6" THEN "6band" ELSE "3tier"

\* variant: single underscores in the suffix
SuffixOfSingleUnderscore(ftb_tag, ren_tag) == <<U, ftb_tag, U, ren_tag>>

\* suffix = f'__{ftb_tag}__{ren_tag}'
SuffixOf(ftb_tag, ren_tag) == <<U, U, ftb_tag, U, U, ren_tag>>

\* variant: renewal as the outer loop
ComboAtRenewalOuter(i) ==
    [ftb |-> FTB_OPTIONS[((i - 1) % 3) + 1], ren |-> RENEWAL_OPTIONS[((i - 1) \div 3) + 1]]

\* the (customer type, renewal) pair visited by iteration i of the double loop
ComboAt(i) ==
    [ftb |-> FTB_OPTIONS[((i - 1) \div 2) + 1], ren |-> RENEWAL_OPTIONS[((i - 1) % 2) + 1]]

NCombos == Len(FTB_OPTIONS) * Len(RENEWAL_OPTIONS)

ComboSuffix(i) == SuffixOf(ComboAt(i).ftb.tag, ComboAt(i).ren.tag)

\* what the loop header of iteration i binds: ftb_label, ren_label and suffix
Entered(i) == [ftb |-> ComboAt(i).ftb.label, ren |-> ComboAt(i).ren.label, suffix |-> ComboSuffix(i)]

(***************************************************************************)
(* generate_figures: the three filtered views of one combination           *)
(***************************************************************************)
\* view[d['is_renewal'] != 1]
KeepNotRenewal(d, view) ==
    LET NotRenewal(i) == d[i].is_renewal # 1
    IN  SelectSeq(view, NotRenewal)

\* view[d['ftb_rb'] == ftb_label]
KeepType(d, view, ftb_label) ==
    LET IsType(i) == d[i].ftb_rb = ftb_label
    IN  SelectSeq(view, IsType)

\* variant: the base view is never narrowed by the renewal axis
ViewsBaseUnfiltered(d, ftb_label, ren_label) ==
    LET typed == IF ftb_label # "All" THEN KeepType(d, AllRows(d), ftb_label) ELSE AllRows(d)
    IN  IF ren_label = "Exclude"
        THEN [dff      |-> KeepNotRenewal(d, typed),
              dff_all  |-> KeepNotRenewal(d, AllRows(d)),
              dff_base |-> AllRows(d)]
        ELSE [dff |-> typed, dff_all |-> AllRows(d), dff_base |-> AllRows(d)]

\* variant: the renewal filter is tested against 'Include'
ViewsRenewalInverted(d, ftb_label, ren_label) ==
    LET typed == IF ftb_label # "All" THEN KeepType(d, AllRows(d), ftb_label) ELSE AllRows(d)
    IN  IF ren_label = "Include"
        THEN [dff      |-> KeepNotRenewal(d, typed),
              dff_all  |-> KeepNotRenewal(d, AllRows(d)),
              dff_base |-> KeepNotRenewal(d, AllRows(d))]
        ELSE [dff |-> typed, dff_all |-> AllRows(d), dff_base |-> AllRows(d)]

\* variant: dff_all is copied from the strict view
ViewsAllFromStrict(d, ftb_label, ren_label) ==
    LET typed == IF ftb_label # "All" THEN KeepType(d, AllRows(d), ftb_label) ELSE AllRows(d)
    IN  IF ren_label = "Exclude"
        THEN [dff      |-> KeepNotRenewal(d, typed),
              dff_all  |-> KeepNotRenewal(d, typed),
              dff_base |-> KeepNotRenewal(d, AllRows(d))]
        ELSE [dff |-> typed, dff_all |-> typed, dff_base |-> AllRows(d)]

Views(d, ftb_label, ren_label) ==
    LET typed == IF ftb_label # "All" THEN KeepType(d, AllRows(d), ftb_label) ELSE AllRows(d)
    IN  IF ren_label = "Exclude"
        THEN [dff      |-> KeepNotRenewal(d, typed),
              dff_all  |-> KeepNotRenewal(d, AllRows(d)),
              dff_base |-> KeepNotRenewal(d, AllRows(d))]
        ELSE [dff |-> typed, dff_all |-> AllRows(d), dff_base |-> AllRows(d)]

(***************************************************************************)
(* generate_figures: the registry assignments of one combination           *)
(***************************************************************************)
NoFrame == <<>>

\* what one assignment figures[key] = geo.<fn>(...) stores: the call made
Call3(fn, cm, metric, v) ==
    [fn |-> fn, cm |-> cm, metric |-> metric, passes |-> {"dff", "df_all", "df_base"},
     dff |-> v.dff, df_all |-> v.dff_all, df_base |-> v.dff_base]

Call1(fn, cm, metric, v) ==
    [fn |-> fn, cm |-> cm, metric |-> metric, passes |-> {"dff"},
     dff |-> v.dff, df_all |-> NoFrame, df_base |-> NoFrame]

Put(key, val) == [key |-> key, val |-> val]

\* Section 2: Local Impact, one grouping
LocalImpact(cm, sfx, v) ==
    << Put(<<"comp", U, "pct", U, Tag(cm)>> \o sfx, Call3("chart_1_pct", cm, <<>>, v)) >>
    \o [i \in 1..Len(VolMetrics) |->
          Put(<<"comp", U>> \o VolMetrics[i] \o <<U, Tag(cm)>> \o sfx,
              Call3("chart_1_abs", cm, VolMetrics[i], v))]
    \o << Put(<<"fts", U, Tag(cm)>> \o sfx,
              Call3("chart_acq_metric", cm, <<"fts", U, "pct">>, v)),
          Put(<<"ltv", U, Tag(cm)>> \o sfx,
              Call3("chart_acq_metric", cm, S("ltv"), v)) >>

\* Section 3: Region Activation, one grouping
RegionActivation(cm, sfx, v) ==
    << Put(<<"pop", U, "house", U, Tag(cm)>> \o sfx, Call1("chart_2_1", cm, <<>>, v)),
       Put(<<"act", U, "weekly", U, Tag(cm)>> \o sfx, Call1("chart_2_2", cm, S("weekly"), v)),
       Put(<<"act", U, "cumul", U, Tag(cm)>> \o sfx, Call1("chart_2_2", cm, S("cumul"), v)) >>

\* Section 4: Geo Mix by House, one grouping
GeoMix(cm, sfx, v) ==
    << Put(<<"geo", U, "mix", U, Tag(cm)>> \o sfx, Call1("chart_geo_mix_by_house", cm, <<>>, v)) >>

\* Section 5: Platform Insights, one grouping
PlatformPut(cm, sfx, v) ==
    << Put(<<"platform", U, Tag(cm)>> \o sfx,
           Call1("chart_platform_geo_composition", cm, <<>>, v)) >>

\* dff.dropna(subset=['channel_type', 'platform'])
DropNaPlatform(d, view) ==
    LET HasPlatform(i) == d[i].platform # "NULL"
    IN  SelectSeq(view, HasPlatform)

\* [p for p in ['Meta', 'Google', 'Direct', 'Organic'] if p in dff_cp['platform'].unique()]
DefaultPlatforms(d, view) ==
    { p \in PlatformCandidates :
        \E j \in 1..Len(DropNaPlatform(d, view)) : d[DropNaPlatform(d, view)[j]].platform = p }

\* every assignment into figures made for one combination, in program order
ComboPuts(d, sfx, v) ==
    LocalImpact(ColorModes[1], sfx, v) \o LocalImpact(ColorModes[2], sfx, v)
    \o RegionActivation(ColorModes[1], sfx, v) \o RegionActivation(ColorModes[2], sfx, v)
    \o << Put(<<"act", U, "by", U, "house">> \o sfx,
              Call1("chart_activation_by_house", <<>>, <<>>, v)) >>
    \o GeoMix(ColorModes[1], sfx, v) \o GeoMix(ColorModes[2], sfx, v)
    \o (IF DefaultPlatforms(d, v.dff) # {}
        THEN PlatformPut(ColorModes[1], sfx, v) \o PlatformPut(ColorModes[2], sfx, v)
        ELSE <<>>)

\* the assignments of the maps section, given whether city_map_df and
\* plz_map_df are not None
MapPutsWhen(city_map, plz_map) ==
    (IF city_map
     THEN << Put(<<"city", U, "map", U, "pop">>,
                 [fn |-> "chart_city_map", cm |-> <<>>, metric |-> S("population"),
                  passes |-> {}, dff |-> NoFrame, df_all |-> NoFrame, df_base |-> NoFrame]) >>
     ELSE <<>>)
    \o (IF plz_map
        THEN [i \in 1..Len(MapMetrics) |->
                Put(<<"plz", U, "map", U>> \o MapMetrics[i],
                    [fn |-> "chart_population_map", cm |-> <<>>, metric |-> MapMetrics[i],
                     passes |-> {"filtered_df"}, dff |-> AllRows(df), df_all |-> NoFrame,
                     df_base |-> NoFrame])]
        ELSE <<>>)

\* variant: one absent map table takes every map away
MapPutsAllOrNothing == MapPutsWhen(city_map_ok /\ plz_map_ok, city_map_ok /\ plz_map_ok)

\* variant: the map tables are loaded before ensure_map_caches builds the
\* caches they are read from, so a run that builds them draws no map
MapPutsLoadedBeforeBuild ==
    LET built == run = 1 /\ seeds_found /\ plz_cache # <<>>
    IN  MapPutsWhen(city_map_ok /\ ~built, plz_map_ok /\ ~built)

\* the assignments of the maps section
MapPuts == MapPutsWhen(city_map_ok, plz_map_ok)

\* figures after the assignments puts[1..n], applied in order: a key holds
\* the value of its last assignment
Assign(figs, puts, n) ==
    LET new == { puts[i].key : i \in 1..n }
        Last(k) == CHOOSE i \in 1..n : puts[i].key = k /\ \A j \in (i + 1)..n : puts[j].key # k
    IN  [k \in DOMAIN figs \cup new |-> IF k \in new THEN puts[Last(k)].val ELSE figs[k]]

Keys(puts) == [i \in 1..Len(puts) |-> puts[i].key]

\* the city performance table of one combination keeps the strict view it
\* is aggregated from
CityTable(dff) == [source |-> dff]

(***************************************************************************)
(* generate_figures: the run                                               *)
(***************************************************************************)
Empty == <<>>

\* nothing generated yet, no page yet
NotStarted ==
    /\ figures = Empty
    /\ city_tables = Empty
    /\ combo = 0
    /\ visited = <<>>
    /\ skipped = {}
    /\ writes = <<>>
    /\ failed = <<>>
    /\ divs = Empty
    /\ placeholders = {}
    /\ tables = Empty
    /\ activeState = Empty
    /\ clicks = 0

\* the city table step is not under study
NoCityTable ==
    /\ city_pop = <<>>
    /\ city_dff = <<>>
    /\ sort_ties = "none"
    /\ city_tbl = <<>>

\* ensure_map_caches has returned: the caches are in place, nothing is built
NoCacheBuild ==
    /\ caches_exist = TRUE
    /\ seeds_found = FALSE
    /\ merge_map = <<>>
    /\ coords = <<>>
    /\ pop = <<>>
    /\ txn = <<>>
    /\ plz_cache = <<>>
    /\ city_cache = <<>>

\* the platform section is not under study
NoPlatform ==
    /\ plat_dff = <<>>
    /\ plat_out = <<>>

\* the first run, its metadata not under study
FirstRun ==
    /\ events = <<>>
    /\ meta = <<>>
    /\ run = 1
    /\ prev = <<>>

Init ==
    /\ pc = "start"
    /\ df \in Datasets
    /\ city_map_ok \in BOOLEAN
    /\ plz_map_ok \in BOOLEAN
    /\ city_pop_ok \in BOOLEAN
    /\ NotStarted
    /\ NoCityTable
    /\ NoCacheBuild
    /\ FirstRun
    /\ NoPlatform

Inputs == <<df, city_map_ok, plz_map_ok, city_pop_ok>>

Page == <<divs, placeholders, tables, activeState, clicks>>

\* the inputs and the result of the city performance table, lines 309-317
CityVars == <<city_pop, city_dff, sort_ties, city_tbl>>

\* the files and the results of ensure_map_caches
Seeds == <<seeds_found, merge_map, coords, pop, txn>>

Caches == <<caches_exist, plz_cache, city_cache>>

Runs == <<events, meta, run, prev>>

PlatVars == <<plat_dff, plat_out>>

Aux == <<CityVars, Seeds, Caches, Runs, PlatVars>>

\* lines 197-234: load, then the maps shared by all filter combinations
GenerateMaps ==
    /\ pc = "start"
    /\ figures' = Assign(Empty, MapPuts, Len(MapPuts))
    /\ writes' = Keys(MapPuts)
    /\ combo' = 1
    /\ pc' = "loop"
    /\ UNCHANGED <<Inputs, city_tables, visited, skipped, failed, Page, Aux>>

CurrentViews == Views(df, ComboAt(combo).ftb.label, ComboAt(combo).ren.label)

\* variant: `break` in place of `continue`
SkipComboBreak ==
    /\ pc = "loop"
    /\ combo <= NCombos
    /\ CurrentViews.dff = <<>>
    /\ visited' = Append(visited, Entered(combo))
    /\ skipped' = skipped \cup {ComboSuffix(combo)}
    /\ combo' = NCombos + 1
    /\ UNCHANGED <<pc, Inputs, figures, city_tables, writes, failed, Page, Aux>>

\* lines 237-257: one iteration whose strict view is empty
SkipCombo ==
    /\ pc = "loop"
    /\ combo <= NCombos
    /\ CurrentViews.dff = <<>>
    /\ visited' = Append(visited, Entered(combo))
    /\ skipped' = skipped \cup {ComboSuffix(combo)}
    /\ combo' = combo + 1
    /\ UNCHANGED <<pc, Inputs, figures, city_tables, writes, failed, Page, Aux>>

\* lines 305-317: the city table is stored when the population file exists
WithCityTable(tbls, sfx, dff) ==
    IF city_pop_ok /\ dff # <<>>
    THEN [k \in DOMAIN tbls \cup {sfx} |-> IF k = sfx THEN CityTable(dff) ELSE tbls[k]]
    ELSE tbls

\* lines 237-317: one iteration whose strict view has rows
ProcessCombo ==
    /\ pc = "loop"
    /\ combo <= NCombos
    /\ CurrentViews.dff # <<>>
    /\ LET puts == ComboPuts(df, ComboSuffix(combo), CurrentViews)
       IN  /\ figures' = Assign(figures, puts, Len(puts))
           /\ writes' = writes \o Keys(puts)
    /\ city_tables' = WithCityTable(city_tables, ComboSuffix(combo), CurrentViews.dff)
    /\ visited' = Append(visited, Entered(combo))
    /\ combo' = combo + 1
    /\ UNCHANGED <<pc, Inputs, skipped, failed, Page, Aux>>

\* lines 259-302: a geo.chart_* call of the iteration raises; nothing in
\* generate_figures or main catches it, so the exception unwinds the run:
\* its locals are gone and nothing is returned or written
MetricRaises ==
    /\ pc = "loop"
    /\ combo <= NCombos
    /\ CurrentViews.dff # <<>>
    /\ failed' \in SetOf(Keys(ComboPuts(df, ComboSuffix(combo), CurrentViews)))
    /\ pc' = "raised"
    /\ df' = <<>>
    /\ figures' = Empty
    /\ city_tables' = Empty
    /\ visited' = <<>>
    /\ skipped' = {}
    /\ writes' = <<>>
    /\ UNCHANGED <<city_map_ok, plz_map_ok, city_pop_ok, combo, Page, Aux>>

\* line 319: return figures, city_tables, meta
ReturnFigures ==
    /\ pc = "loop"
    /\ combo > NCombos
    /\ pc' = "returned"
    /\ UNCHANGED <<Inputs, figures, city_tables, combo, visited, skipped, writes, failed, Page, Aux>>

(***************************************************************************)
(* build_html: the divs of the static page                                 *)
(***************************************************************************)
\* for tag in ['6band', '3tier']
Tags == <<"6band", "3tier">>

\* for mode in ['weekly', 'cumul']
ActModes == << S("weekly"), S("cumul") >>

GetAllCall(base, base_hidden) == [base |-> base, base_hidden |-> base_hidden]

\* get_all(base + '_6band') + get_all(base + '_3tier', base_hidden=True)
ByGrouping(base) ==
    << GetAllCall(base \o <<U, Tags[1]>>, FALSE), GetAllCall(base \o <<U, Tags[2]>>, TRUE) >>

\* for x in xs: for tag in tags: hidden = not (x == xs[0] and tag == '6band')
ByChoiceAndGrouping(prefix, xs) ==
    [n \in 1..(Len(xs) * Len(Tags)) |->
        LET x   == xs[((n - 1) \div Len(Tags)) + 1]
            tag == Tags[((n - 1) % Len(Tags)) + 1]
        IN  GetAllCall(prefix \o x \o <<U, tag>>, ~(x = xs[1] /\ tag = "6band"))]

\* the chart panels of sections 2 to 5 with the get_all calls filling each
Panels ==
    << [name |-> "pct",  calls |-> ByGrouping(<<"comp", U, "pct">>)],
       [name |-> "vol",  calls |-> ByChoiceAndGrouping(<<"comp", U>>, VolMetrics)],
       [name |-> "fts",  calls |-> ByGrouping(S("fts"))],
       [name |-> "ltv",  calls |-> ByGrouping(S("ltv"))],
       [name |-> "pop",  calls |-> ByGrouping(<<"pop", U, "house">>)],
       [name |-> "act",  calls |-> ByChoiceAndGrouping(<<"act", U>>, ActModes)],
       [name |-> "act_by_house",
        calls |-> << GetAllCall(<<"act", U, "by", U, "house">>, FALSE) >>],
       [name |-> "mix",  calls |-> ByGrouping(<<"geo", U, "mix">>)],
       [name |-> "plat", calls |-> ByGrouping(S("platform"))] >>

\* the suffixes get_all walks: for _, ft in FTB_OPTIONS: for _, rn in RENEWAL_OPTIONS
FilterSuffixes ==
    { SuffixOf(FTB_OPTIONS[i].tag, RENEWAL_OPTIONS[j].tag) :
        i \in 1..Len(FTB_OPTIONS), j \in 1..Len(RENEWAL_OPTIONS) }

DefaultSuffix == SuffixOf("all", "incl")

\* fig_to_div wraps figure <key> in <div id="wrap_<key>">
Wrap(key) == <<"wrap", U>> \o key

\* variant: base_hidden is ignored
GetAllHiddenDefaultOnly(call, sfx) == sfx # DefaultSuffix

\* get_all: hidden = not (is_default_filter and not base_hidden)
GetAllHidden(call, sfx) == ~(sfx = DefaultSuffix /\ ~call.base_hidden)

GetAllDivs(figs, call) ==
    { [id |-> Wrap(call.base \o sfx), shown |-> ~GetAllHidden(call, sfx)] :
        sfx \in { x \in FilterSuffixes : (call.base \o x) \in DOMAIN figs } }

\* if not html: return '<p ...>Chart not available (missing cache data)</p>'
GetAllPlaceholder(figs, call) == GetAllDivs(figs, call) = {}

\* has_maps / the test guarding section 5
AnyKeyStartsWith(figs, prefix) == \E k \in DOMAIN figs : StartsWith(k, prefix)

HasMaps(figs) ==
    AnyKeyStartsWith(figs, <<"city", U, "map">>) \/ AnyKeyStartsWith(figs, <<"plz", U, "map">>)

\* get(key, hidden) calls of section 1
MapGets ==
    { [key |-> <<"city", U, "map", U, "pop">>, hidden |-> FALSE] }
    \cup { [key |-> <<"plz", U, "map", U>> \o MapMetrics[i], hidden |-> MapMetrics[i] # S("customers")] :
            i \in 1..Len(MapMetrics) }

PanelRendered(figs, p) == p.name # "plat" \/ AnyKeyStartsWith(figs, <<"platform", U>>)

RenderedCalls(figs) ==
    UNION { SetOf(p.calls) : p \in { q \in SetOf(Panels) : PanelRendered(figs, q) } }

\* every wrap_ div of the page with its initial display
HtmlDivs(figs) ==
    LET maps == IF HasMaps(figs)
                THEN { [key |-> g.key, shown |-> ~g.hidden] : g \in MapGets }
                ELSE {}
        charts == { [key |-> c.base \o sfx, shown |-> ~GetAllHidden(c, sfx)] :
                      c \in RenderedCalls(figs), sfx \in FilterSuffixes }
    IN  { [id |-> Wrap(x.key), shown |-> x.shown] :
            x \in { y \in maps \cup charts : y.key \in DOMAIN figs } }

HtmlPlaceholders(figs) ==
    (IF HasMaps(figs) THEN { g.key : g \in { x \in MapGets : x.key \notin DOMAIN figs } } ELSE {})
    \cup { c.base : c \in { x \in RenderedCalls(figs) : GetAllPlaceholder(figs, x) } }

\* const activeState = {...}
InitialState ==
    [color_mode |-> S("6band"), vol_metric |-> S("customers"), act_mode |-> S("weekly"),
     map_metric |-> S("customers"), customer_type |-> S("all"), renewals |-> S("incl")]

\* main, lines 885-889: build_html and write index.html; the export process
\* ends and what remains is the page
BuildHtml ==
    /\ pc = "returned"
    /\ pc' = "page"
    /\ \E emitted \in {HtmlDivs(figures)} :
          divs' = [e \in { x.id : x \in emitted } |-> [id |-> e, shown |-> TRUE] \in emitted]
    /\ placeholders' = HtmlPlaceholders(figures)
    /\ tables' = [sfx \in DOMAIN city_tables |-> sfx = DefaultSuffix]
    /\ activeState' = InitialState
    /\ df' = <<>>
    /\ figures' = Empty
    /\ city_tables' = Empty
    /\ visited' = <<>>
    /\ skipped' = {}
    /\ writes' = <<>>
    /\ UNCHANGED <<city_map_ok, plz_map_ok, city_pop_ok, combo, failed, clicks, Aux>>

(***************************************************************************)
(* The inline script: toggle and applyVisibility                           *)
(***************************************************************************)
\* the (data-group, data-value) pairs of the toggle buttons
Buttons ==
    { <<"customer_type", S("all")>>, <<"customer_type", S("ftb")>>, <<"customer_type", S("rb")>>,
      <<"renewals", S("incl")>>, <<"renewals", S("excl")>>,
      <<"color_mode", S("6band")>>, <<"color_mode", S("3tier")>>,
      <<"vol_metric", S("customers")>>, <<"vol_metric", S("revenue")>>, <<"vol_metric", S("spc")>>,
      <<"act_mode", S("weekly")>>, <<"act_mode", S("cumul")>>,
      <<"map_metric", S("customers")>>, <<"map_metric", <<"rev", U, "per", U, "1k">> >>,
      <<"map_metric", S("activation")>> }

\* variant: the two axes in the other order
FilterSuffixRenewalFirst(st) == <<U, U>> \o st.renewals \o <<U, U>> \o st.customer_type

\* const filterSuffix = `__${ct}__${rn}`
FilterSuffix(st) == <<U, U>> \o st.customer_type \o <<U, U>> \o st.renewals

\* const cmOnly = ['comp_pct_', 'fts_', 'ltv_', 'pop_house_', 'geo_mix_', 'platform_']
CmOnly ==
    << <<"comp", U, "pct", U>>, <<"fts", U>>, <<"ltv", U>>, <<"pop", U, "house", U>>,
       <<"geo", U, "mix", U>>, <<"platform", U>> >>

\* parts[n] === x, false when parts has no element n (0-based)
PartIs(parts, n, x) == n + 1 <= Len(parts) /\ parts[n + 1] = x

\* variant: the PLZ maps follow the volume toggle
PlzMapShownByVolume(id, st) == Replace(id, <<"plz", U, "map", U>>, <<>>) = st.vol_metric

\* id.replace('plz_map_', '') === mm
PlzMapShown(id, st) == Replace(id, <<"plz", U, "map", U>>, <<>>) = st.map_metric

\* the body of the forEach over [id^="wrap_"]: the display of element elid
\* after the pass, given its display before (shown).  The bounded \E over
\* a one-element set binds a local constant of the script.
DivShown(elid, shown, st, filterSuffix) ==
    \E id \in {Replace(elid, <<"wrap", U>>, <<>>)} :
        IF id = <<"city", U, "map", U, "pop">> THEN TRUE
        ELSE IF StartsWith(id, <<"plz", U, "map", U>>)
             THEN PlzMapShown(id, st)
        ELSE IF ~Includes(id, <<U, U>>) THEN shown
        ELSE IF ~EndsWith(id, filterSuffix) THEN FALSE
        ELSE \E base \in {Slice(id, 0, Len(id) - Len(filterSuffix))} :
             \E hits \in {{ n \in 1..Len(CmOnly) : StartsWith(base, CmOnly[n]) }} :
                IF hits # {}
                THEN LET first == CHOOSE n \in hits : \A m \in hits : n <= m
                     IN  Slice(base, Len(CmOnly[first]), Len(base)) = st.color_mode
                ELSE IF StartsWith(base, <<"comp", U>>) /\ ~StartsWith(base, <<"comp", U, "pct", U>>)
                     THEN \E parts \in {Split(Replace(base, <<"comp", U>>, <<>>))} :
                             PartIs(parts, 0, st.vol_metric) /\ PartIs(parts, 1, st.color_mode)
                ELSE IF StartsWith(base, <<"act", U, "weekly", U>>)
                        \/ StartsWith(base, <<"act", U, "cumul", U>>)
                     THEN \E parts \in {Split(base)} :
                             PartIs(parts, 1, st.act_mode) /\ PartIs(parts, 2, st.color_mode)
                ELSE IF base = <<"act", U, "by", U, "house">> THEN TRUE
                ELSE shown

\* el.style.display = (el.dataset.cityTable === filterSuffix) ? 'block' : 'none'
TableShown(sfx, filterSuffix) == sfx = filterSuffix

\* applyVisibility() under the state st
ApplyVisibility(st) ==
    \E filterSuffix \in {FilterSuffix(st)} :
        /\ divs' = [e \in DOMAIN divs |-> DivShown(e, divs[e], st, filterSuffix)]
        /\ tables' = [t \in DOMAIN tables |-> TableShown(t, filterSuffix)]

Export == <<df, city_map_ok, plz_map_ok, city_pop_ok, figures, city_tables,
            combo, visited, skipped, writes, failed>>

\* window.addEventListener('load', applyVisibility)
PageLoad ==
    /\ pc = "page"
    /\ pc' = "live"
    /\ ApplyVisibility(activeState)
    /\ UNCHANGED <<Export, placeholders, activeState, clicks, Aux>>

\* toggle(group, value), the onclick of a button
Toggle(group, value) ==
    /\ pc = "live"
    /\ clicks < MaxClicks
    /\ clicks' = clicks + 1
    /\ activeState' = [activeState EXCEPT ![group] = value]
    /\ ApplyVisibility(activeState')
    /\ UNCHANGED <<pc, Export, placeholders, Aux>>

ToggleAny == \E b \in Buttons : Toggle(b[1], b[2])

Next ==
    \/ GenerateMaps
    \/ SkipCombo
    \/ ProcessCombo
    \/ MetricRaises
    \/ ReturnFigures
    \/ BuildHtml
    \/ PageLoad
    \/ ToggleAny

Spec == Init /\ [][Next]_vars

(***************************************************************************)
(* generate_figures: the city performance table, lines 309-317             *)
(***************************************************************************)
\* .head(20)
TopN == 20

\* rows of the city population file / of the strict view in the small inputs
MaxCities == 2

MaxTxn == 2

\* a quotient of two numbers as pandas computes it, kept to 2 decimals:
\* hundredths is the value times 100; x / 0.0 is inf for x > 0 and nan for 0
Num(h) == [kind |-> "num", hundredths |-> h]

Inf == [kind |-> "inf", hundredths |-> 0]

NaN == [kind |-> "nan", hundredths |-> 0]

\* round half to even of n / d (n >= 0, d > 0)
RoundHalfEven(n, d) ==
    IF 2 * (n % d) < d THEN n \div d
    ELSE IF 2 * (n % d) > d THEN (n \div d) + 1
    ELSE IF (n \div d) % 2 = 0 THEN n \div d
    ELSE (n \div d) + 1

\* (x / (population / 1000)).round(2)
Per1k(x, population) ==
    IF population = 0 THEN (IF x = 0 THEN NaN ELSE Inf)
    ELSE Num(RoundHalfEven(x * 1000 * 100, population))

\* variant: customers counted as rows
NRows(dff, c) == Cardinality({ i \in 1..Len(dff) : dff[i].city = c })

\* customers=('customer_id', 'nunique') of the group of city c
NUnique(dff, c) ==
    Cardinality({ dff[i].customer_id : i \in { j \in 1..Len(dff) : dff[j].city = c } })

\* the sum of the revenues of the rows of city c, equal amounts taken together
RECURSIVE SumAmounts(_, _, _)
SumAmounts(dff, c, amounts) ==
    IF amounts = {} THEN 0
    ELSE LET v == CHOOSE x \in amounts : TRUE
         IN  v * Cardinality({ i \in 1..Len(dff) : dff[i].city = c /\ dff[i].revenue = v })
             + SumAmounts(dff, c, amounts \ {v})

\* revenue=('variant_price_after_discount', 'sum') of the group of city c
SumRevenue(dff, c) ==
    SumAmounts(dff, c, { dff[i].revenue : i \in { j \in 1..Len(dff) : dff[j].city = c } })

\* dff.groupby('city').agg(...): city -> aggregates
CityCust(dff) ==
    [c \in { dff[i].city : i \in 1..Len(dff) } |->
        [customers |-> NUnique(dff, c), revenue |-> SumRevenue(dff, c)]]

\* city_pop.merge(city_cust, on='city', how='inner') with the two ratios
MergeInner(cpop, cust) ==
    LET Matched(r) == r.city \in DOMAIN cust
        left == SelectSeq(cpop, Matched)
    IN  [i \in 1..Len(left) |->
            [city       |-> left[i].city,
             population |-> left[i].population,
             customers  |-> cust[left[i].city].customers,
             revenue    |-> cust[left[i].city].revenue,
             activation |-> Per1k(cust[left[i].city].customers, left[i].population),
             rev_per_1k |-> Per1k(cust[left[i].city].revenue, left[i].population)]]

\* sort_values('population', ascending=False): rows of equal population come
\* out in an order the sort algorithm of the build decides (ties)
SortByPopulation(rows, ties) ==
    LET Before(j, i) ==
            \/ rows[j].population > rows[i].population
            \/ /\ rows[j].population = rows[i].population
               /\ IF ties = "first" THEN j < i ELSE j > i
        Rank(i) == Cardinality({ j \in 1..Len(rows) : Before(j, i) })
    IN  [k \in 1..Len(rows) |-> rows[CHOOSE i \in 1..Len(rows) : Rank(i) = k - 1]]

\* .head(n)
HeadRows(rows, n) == SubSeq(rows, 1, IF Len(rows) < n THEN Len(rows) ELSE n)

\* variant: truncated before it is sorted
CityTblHeadFirst(cpop, dff, ties) ==
    SortByPopulation(HeadRows(MergeInner(cpop, CityCust(dff)), TopN), ties)

\* lines 309-317
CityTbl(cpop, dff, ties) ==
    HeadRows(SortByPopulation(MergeInner(cpop, CityCust(dff)), ties), TopN)

CityNames == {"A", "B", "C"}

Populations == {0, 50000, 100000}

\* population files of up to MaxCities rows, one row per city
CityPopTables ==
    { t \in UNION { [1..n -> [city : CityNames, population : Populations]] : n \in 1..MaxCities } :
        \A i, j \in 1..Len(t) : i < j => t[i].city # t[j].city }

\* non-empty strict views of up to MaxTxn rows
CityViews ==
    UNION { [1..n -> [city : {"A", "B"}, customer_id : {1, 2}, revenue : {0, 1000}]] :
              n \in 1..MaxTxn }

\* cities A (population 100000, 50 customers, revenue 1000) and
\* B (population 50000, 200 customers, revenue 5000), B first in the file
ExamplePop ==
    << [city |-> "B", population |-> 50000], [city |-> "A", population |-> 100000] >>

ExampleDff ==
    [i \in 1..250 |-> IF i <= 50 THEN [city |-> "A", customer_id |-> i, revenue |-> 20]
                      ELSE [city |-> "B", customer_id |-> i, revenue |-> 25]]

\* 22 cities, each with customers: more than the table keeps
ManyNames ==
    << "C01", "C02", "C03", "C04", "C05", "C06", "C07", "C08", "C09", "C10", "C11",
       "C12", "C13", "C14", "C15", "C16", "C17", "C18", "C19", "C20", "C21", "C22" >>

\* pairwise different populations, spread over the file in an order set by k
ManyPop(k) ==
    [i \in 1..Len(ManyNames) |->
        [city |-> ManyNames[i], population |-> (((i * 7) + k) % 23) * 1000]]

\* one customer per city, three for C03
ManyDff ==
    [i \in 1..(Len(ManyNames) + 2) |->
        IF i <= Len(ManyNames) THEN [city |-> ManyNames[i], customer_id |-> i, revenue |-> 1000]
        ELSE [city |-> "C03", customer_id |-> i, revenue |-> 1000]]

CityInputs ==
    (CityPopTables \X CityViews)
    \cup { <<ExamplePop, ExampleDff>> }
    \cup { <<ManyPop(k), ManyDff>> : k \in 0..2 }

\* the state in which lines 309-317 start for one combination
InitCity ==
    /\ pc = "city"
    /\ \E input \in CityInputs : city_pop = input[1] /\ city_dff = input[2]
    /\ sort_ties \in {"first", "last"}
    /\ city_tbl = <<>>
    /\ df = <<>>
    /\ city_map_ok = FALSE
    /\ plz_map_ok = FALSE
    /\ city_pop_ok = TRUE
    /\ NotStarted
    /\ NoCacheBuild
    /\ FirstRun
    /\ NoPlatform

\* lines 309-317: city_tbl as stored by city_tables[suffix] = ...
BuildCityTable ==
    /\ pc = "city"
    /\ pc' = "city_done"
    /\ city_tbl' = CityTbl(city_pop, city_dff, sort_ties)
    /\ UNCHANGED <<Export, Page, city_pop, city_dff, sort_ties, Seeds, Caches, Runs, PlatVars>>

NextCity == BuildCityTable

CitySpec == InitCity /\ [][NextCity]_vars

(***************************************************************************)
(* generate_figures: Section 5, Platform Insights, lines 289-302           *)
(***************************************************************************)
MaxPlatRows == 3

\* dff.dropna(subset=['channel_type', 'platform'])
DffCp(dff) ==
    LET Complete(r) == r.channel_type # "NULL" /\ r.platform # "NULL"
    IN  SelectSeq(dff, Complete)

\* dff_cp['channel_type'] + ' | ' + dff_cp['platform']
ChannelPlatform(r) == <<r.channel_type, " | ", r.platform>>

\* variant: any platform of the view is taken
DefaultPlatformsAny(dff_cp) == { dff_cp[i].platform : i \in 1..Len(dff_cp) }

\* [p for p in ['Meta', 'Google', 'Direct', 'Organic'] if p in dff_cp['platform'].unique()]
DefaultPlatformsOf(dff_cp) ==
    { p \in PlatformCandidates : \E i \in 1..Len(dff_cp) : dff_cp[i].platform = p }

\* dff_cp[dff_cp['platform'].isin(default_platforms)]
CpFiltered(dff_cp) ==
    LET Kept(r) == r.platform \in DefaultPlatformsOf(dff_cp)
    IN  SelectSeq(dff_cp, Kept)

\* the channel_platform values in the order groupby puts its groups: sorted
ChannelPlatformOrder ==
    << <<"Paid", " | ", "Google">>, <<"Paid", " | ", "Meta">>, <<"Paid", " | ", "TikTok">> >>

\* groupby('channel_platform')['customer_id'].nunique()
CpCounts(cp_filtered) ==
    LET Present(g) == \E i \in 1..Len(cp_filtered) : ChannelPlatform(cp_filtered[i]) = g
        groups == SelectSeq(ChannelPlatformOrder, Present)
    IN  [n \in 1..Len(groups) |->
            [channel_platform |-> groups[n],
             customers |-> Cardinality({ cp_filtered[i].customer_id :
                                           i \in { j \in 1..Len(cp_filtered) :
                                                     ChannelPlatform(cp_filtered[j]) = groups[n] } })]]

\* .sort_values(ascending=False).index.tolist(): groups of equal count come
\* out in an order the sort algorithm of the build decides (ties)
CpOptions(cp_filtered, ties) ==
    LET counts == CpCounts(cp_filtered)
        Before(j, i) ==
            \/ counts[j].customers > counts[i].customers
            \/ /\ counts[j].customers = counts[i].customers
               /\ IF ties = "first" THEN j < i ELSE j > i
        Rank(i) == Cardinality({ j \in 1..Len(counts) : Before(j, i) })
    IN  [k \in 1..Len(counts) |->
            counts[CHOOSE i \in 1..Len(counts) : Rank(i) = k - 1].channel_platform]

\* lines 289-302 for one combination: the assignments made, each with the
\* frame and the selection its call passes
PlatformSection(dff, sfx, ties) ==
    LET dff_cp == DffCp(dff)
    IN  IF dff_cp # <<>> /\ DefaultPlatformsOf(dff_cp) # {}
        THEN [n \in 1..Len(ColorModes) |->
                [key |-> <<"platform", U, Tag(ColorModes[n])>> \o sfx,
                 fn  |-> "chart_platform_geo_composition",
                 cm  |-> ColorModes[n],
                 dff |-> dff,
                 selected_platforms |-> CpOptions(CpFiltered(dff_cp), ties)]]
        ELSE <<>>

PlatformRows ==
    [channel_type : {"Paid", "NULL"}, platform : {"Meta", "Google", "TikTok", "NULL"},
     customer_id : {1, 2}]

\* the strict views of a combination that is not skipped: 1..MaxPlatRows rows
PlatformViews == UNION { [1..n -> PlatformRows] : n \in 1..MaxPlatRows }

\* the state in which line 289 is reached for the combination All / Include
InitPlatform ==
    /\ pc = "platform"
    /\ plat_dff \in PlatformViews
    /\ sort_ties \in {"first", "last"}
    /\ plat_out = <<>>
    /\ city_pop = <<>>
    /\ city_dff = <<>>
    /\ city_tbl = <<>>
    /\ df = <<>>
    /\ city_map_ok = FALSE
    /\ plz_map_ok = FALSE
    /\ city_pop_ok = FALSE
    /\ NotStarted
    /\ NoCacheBuild
    /\ FirstRun

\* lines 289-302
BuildPlatformSection ==
    /\ pc = "platform"
    /\ pc' = "platform_done"
    /\ plat_out' = PlatformSection(plat_dff, ComboSuffix(1), sort_ties)
    /\ UNCHANGED <<Export, Page, CityVars, Seeds, Caches, Runs, plat_dff>>

NextPlatform == BuildPlatformSection

PlatformSpec == InitPlatform /\ [][NextPlatform]_vars

(***************************************************************************)
(* ensure_map_caches, lines 97-180                                         *)
(***************************************************************************)
\* postal groups of the seed files in the small inputs
MaxCodes == 2

CodeList == <<"100", "101", "200">>

\* coordinates and place name of a postal group in the seed files
SeedOf ==
    ("100" :> [latitude |-> 52, longitude |-> 13, plz_ort |-> "Berlin"])
    @@ ("101" :> [latitude |-> 50, longitude |-> 10, plz_ort |-> "Berlin"])
    @@ ("200" :> [latitude |-> 48, longitude |-> 11, plz_ort |-> "Potsdam"])

\* a quotient of two sums; x / NaN is NaN
Quot(n, d) == IF d = 0 THEN [kind |-> "nan", n |-> 0, d |-> 1] ELSE [kind |-> "num", n |-> n, d |-> d]

\* plz_df['plz_three_digits'].map(merge_map).fillna(plz_df['plz_three_digits'])
GroupKey(mm, c) == IF c \in DOMAIN mm THEN mm[c] ELSE c

\* variant: the transactions keep their postal code
ReplaceKeyNone(mm, c) == c

\* txn['plz_three_digits'].replace(merge_map)
ReplaceKey(mm, c) == IF c \in DOMAIN mm THEN mm[c] ELSE c

\* coords.merge(pop[...], on='plz_three_digits', how='left') with group_key,
\* w_lat and w_lon; a postal group without a population row has
\* population NaN (has_pop FALSE), which fillna(0) and sum() take as 0
PlzDf(co, po, mm) ==
    [i \in 1..Len(co) |->
        LET hit == { j \in 1..Len(po) : po[j].plz_three_digits = co[i].plz_three_digits }
            population == IF hit = {} THEN 0 ELSE po[CHOOSE j \in hit : TRUE].population
        IN  [plz_three_digits |-> co[i].plz_three_digits,
             latitude   |-> co[i].latitude,
             longitude  |-> co[i].longitude,
             has_pop    |-> hit # {},
             population |-> population,
             plz_ort    |-> IF hit = {} THEN "NaN" ELSE po[CHOOSE j \in hit : TRUE].plz_ort,
             group_key  |-> GroupKey(mm, co[i].plz_three_digits),
             city       |-> IF co[i].plz_three_digits \in DOMAIN mm
                            THEN GroupKey(mm, co[i].plz_three_digits)
                            ELSE IF hit = {} THEN "NaN" ELSE po[CHOOSE j \in hit : TRUE].plz_ort,
             w_lat      |-> co[i].latitude * population,
             w_lon      |-> co[i].longitude * population]]

\* groupby(by).agg((field, 'sum')) for the group `key`
RECURSIVE SumWhere(_, _, _, _, _)
SumWhere(rows, field, by, key, i) ==
    IF i > Len(rows) THEN 0
    ELSE (IF rows[i][by] = key THEN rows[i][field] ELSE 0) + SumWhere(rows, field, by, key, i + 1)

\* variant: the plain mean of the coordinates of the group
CentroidPlainMean(rows, weighted, by, key) ==
    Quot(SumWhere(rows, IF weighted = "w_lat" THEN "latitude" ELSE "longitude", by, key, 1),
         Cardinality({ i \in 1..Len(rows) : rows[i][by] = key }))

\* agg['w_lat'] / agg['population'].replace(0, np.nan), likewise w_lon
Centroid(rows, weighted, by, key) ==
    Quot(SumWhere(rows, weighted, by, key, 1), SumWhere(rows, "population", by, key, 1))

Values(mm) == { mm[c] : c \in DOMAIN mm }

\* agg_plz, lines 126-135, as group_key -> row
AggPlz(plz_df, mm) ==
    [g \in { plz_df[i].group_key : i \in 1..Len(plz_df) } |->
        LET named == { i \in 1..Len(plz_df) : plz_df[i].group_key = g /\ plz_df[i].has_pop }
        IN  [plz_three_digits |-> g,
             plz_ort    |-> IF g \in Values(mm) THEN g
                            ELSE IF named = {} THEN "NaN"
                            ELSE plz_df[CHOOSE i \in named : \A j \in named : i <= j].plz_ort,
             latitude   |-> Centroid(plz_df, "w_lat", "group_key", g),
             longitude  |-> Centroid(plz_df, "w_lon", "group_key", g),
             population |-> SumWhere(plz_df, "population", "group_key", g, 1)]]

\* txn with the postal code normalized, line 139
Normalized(tx, mm) ==
    [i \in 1..Len(tx) |->
        [tx[i] EXCEPT !.plz_three_digits = ReplaceKey(mm, tx[i].plz_three_digits)]]

\* groupby(by).agg(customers nunique, revenue sum), as key -> aggregates
TxnBy(tx, by) ==
    [g \in { tx[i][by] : i \in 1..Len(tx) } |->
        [customers |-> Cardinality({ tx[i].customer_id : i \in { j \in 1..Len(tx) : tx[j][by] = g } }),
         revenue   |-> SumWhere(tx, "revenue", by, g, 1)]]

\* result_plz, lines 145-150: the left merge with fillna(0)
ResultPlz(agg, txn_plz) ==
    [g \in DOMAIN agg |->
        [plz_three_digits |-> agg[g].plz_three_digits,
         plz_ort    |-> agg[g].plz_ort,
         latitude   |-> agg[g].latitude,
         longitude  |-> agg[g].longitude,
         population |-> agg[g].population,
         customers  |-> IF g \in DOMAIN txn_plz THEN txn_plz[g].customers ELSE 0,
         revenue    |-> IF g \in DOMAIN txn_plz THEN txn_plz[g].revenue ELSE 0]]

\* city_pop of lines 155-160: the file, or the seed population by city
CityPopOrFallback(exists, file, po, mm) ==
    IF exists
    THEN [c \in { file[i].city : i \in 1..Len(file) } |->
            file[CHOOSE i \in 1..Len(file) : file[i].city = c].population]
    ELSE LET rows == [i \in 1..Len(po) |->
                        [city |-> IF po[i].plz_three_digits \in DOMAIN mm
                                  THEN mm[po[i].plz_three_digits] ELSE po[i].plz_ort,
                         population |-> po[i].population]]
         IN  [c \in { rows[i].city : i \in 1..Len(rows) } |->
                SumWhere(rows, "population", "city", c, 1)]

\* city_coords, lines 162-168, as city -> centroid (groupby drops a NaN city)
CityCoords(plz_df) ==
    [c \in { plz_df[i].city : i \in 1..Len(plz_df) } \ {"NaN"} |->
        [latitude  |-> Centroid(plz_df, "w_lat", "city", c),
         longitude |-> Centroid(plz_df, "w_lon", "city", c)]]

\* city_df, lines 175-179
CityDf(cp, cc, txn_city) ==
    [c \in DOMAIN cp |->
        LET customers == IF c \in DOMAIN txn_city THEN txn_city[c].customers ELSE 0
            revenue   == IF c \in DOMAIN txn_city THEN txn_city[c].revenue ELSE 0
        IN  [city       |-> c,
             population |-> cp[c],
             latitude   |-> IF c \in DOMAIN cc THEN cc[c].latitude ELSE Quot(0, 0),
             longitude  |-> IF c \in DOMAIN cc THEN cc[c].longitude ELSE Quot(0, 0),
             customers  |-> customers,
             revenue    |-> revenue,
             spc        |-> IF customers = 0 THEN 0 ELSE RoundHalfEven(revenue * 100, customers)]]

\* the seed files holding the postal groups K; f gives the population of
\* each, -1 for a group without a row in dim_plz_population.csv
SeedCoords(K) ==
    LET In(c) == c \in K
        codes == SelectSeq(CodeList, In)
    IN  [i \in 1..Len(codes) |->
            [plz_three_digits |-> codes[i], latitude |-> SeedOf[codes[i]].latitude,
             longitude |-> SeedOf[codes[i]].longitude]]

SeedPop(K, f) ==
    LET In(c) == c \in K /\ f[c] >= 0
        codes == SelectSeq(CodeList, In)
    IN  [i \in 1..Len(codes) |->
            [plz_three_digits |-> codes[i], plz_ort |-> SeedOf[codes[i]].plz_ort,
             population |-> f[codes[i]]]]

PopChoices == {-1, 0, 1000, 3000}

SeedFiles ==
    UNION { { [coords |-> SeedCoords(K), pop |-> SeedPop(K, f)] : f \in [K -> PopChoices] } :
              K \in { X \in SUBSET SetOf(CodeList) : X # {} /\ Cardinality(X) <= MaxCodes } }

\* merge tables: postal codes of Berlin -> "Berlin"
MergeMaps == UNION { [D -> {"Berlin"}] : D \in SUBSET {"100", "101"} }

\* the transactions on the columns ensure_map_caches reads
Txns ==
    UNION { [1..n -> { [plz_three_digits |-> c, customer_id |-> k, revenue |-> k * 1000,
                        city |-> SeedOf[c].plz_ort] : c \in SetOf(CodeList), k \in {1, 2} }] :
              n \in 1..MaxTxn }

SeedCityPop ==
    << [city |-> "Berlin", population |-> 4000], [city |-> "Potsdam", population |-> 0],
       [city |-> "Bonn", population |-> 1000] >>

\* the state in which ensure_map_caches is entered: caches missing and
\* seeds found, caches missing and no seeds, or caches in place
InitMap ==
    /\ pc = "ensure"
    /\ merge_map \in MergeMaps
    /\ txn \in Txns
    /\ \/ /\ caches_exist = FALSE
          /\ seeds_found = TRUE
          /\ \E files \in SeedFiles : coords = files.coords /\ pop = files.pop
       \/ /\ caches_exist \in BOOLEAN
          /\ seeds_found = FALSE
          /\ coords = <<>>
          /\ pop = <<>>
    /\ plz_cache = <<>>
    /\ city_cache = <<>>
    /\ city_pop_ok \in BOOLEAN
    /\ city_pop = (IF city_pop_ok THEN SeedCityPop ELSE <<>>)
    /\ city_dff = <<>>
    /\ sort_ties = "none"
    /\ city_tbl = <<>>
    /\ df = <<>>
    /\ city_map_ok = FALSE
    /\ plz_map_ok = FALSE
    /\ NotStarted
    /\ FirstRun
    /\ NoPlatform

\* ensure_map_caches(geo, df, dashboard_dir), lines 97-180
EnsureMapCaches ==
    /\ pc = "ensure"
    /\ pc' = "meta"
    /\ IF caches_exist \/ ~seeds_found
       THEN UNCHANGED Caches
       ELSE /\ caches_exist' = TRUE
            /\ \E plz_df \in {PlzDf(coords, pop, merge_map)} :
                  /\ plz_cache' = ResultPlz(AggPlz(plz_df, merge_map),
                                            TxnBy(Normalized(txn, merge_map), "plz_three_digits"))
                  /\ city_cache' = CityDf(CityPopOrFallback(city_pop_ok, city_pop, pop, merge_map),
                                          CityCoords(plz_df), TxnBy(txn, "city"))
    /\ UNCHANGED <<Export, Page, CityVars, Seeds, Runs, PlatVars>>

NextMap == EnsureMapCaches

MapCacheSpec == InitMap /\ [][NextMap]_vars

(***************************************************************************)
(* generate_figures: a whole run from ensure_map_caches on, and a second   *)
(* run on the same input                                                   *)
(***************************************************************************)
\* the columns event_category (0 for NaN) and created_at (a day of January
\* 2024) of a dataframe of n rows: the categories come in falling order
EventColumns(n) ==
    [i \in 1..n |-> [event_category |-> (3 - i) % 3, created_at |-> 28 - ((i * 3) % 5)]]

RECURSIVE Sorted(_)
\* sorted(values)
Sorted(values) ==
    IF values = {} THEN <<>>
    ELSE LET least == CHOOSE x \in values : \A y \in values : x <= y
         IN  <<least>> \o Sorted(values \ {least})

\* Timestamp.strftime('%d %b %Y')
Strftime(day) == << day \div 10, day % 10, " ", "Jan", " ", 2, 0, 2, 4 >>

MinOf(values) == CHOOSE x \in values : \A y \in values : x <= y

MaxOf(values) == CHOOSE x \in values : \A y \in values : x >= y

\* lines 209-218, on the columns of the model
Meta(ev) ==
    [event_cats |-> Sorted({ ev[i].event_category : i \in 1..Len(ev) } \ {0}),
     date_min   |-> Strftime(MinOf({ ev[i].created_at : i \in 1..Len(ev) })),
     date_max   |-> Strftime(MaxOf({ ev[i].created_at : i \in 1..Len(ev) }))]

\* the seed files of the whole-run study
ExportSeeds == [coords |-> SeedCoords({"100", "200"}),
                pop    |-> SeedPop({"100", "200"}, [c \in {"100", "200"} |-> 1000])]

\* which auxiliary tables a run finds: the two map tables and the city
\* population file, each present or absent; the caches in place, built from
\* the seeds (with and without the city population file), or missing with
\* no seeds directory to build them from
Dependencies ==
    LET Found(cm, pm, cp, ca, se) ==
            [city_map |-> cm, plz_map |-> pm, city_pop |-> cp, caches |-> ca, seeds |-> se]
    IN  { Found(cm, pm, cp, TRUE, FALSE) : cm \in BOOLEAN, pm \in BOOLEAN, cp \in BOOLEAN }
        \cup { Found(TRUE, TRUE, cp, FALSE, TRUE) : cp \in BOOLEAN }
        \cup { Found(FALSE, FALSE, cp, FALSE, FALSE) : cp \in BOOLEAN }

\* main: the state in which generate_figures is entered; every metric
\* function returns
InitExport ==
    /\ pc = "ensure"
    /\ df \in Datasets
    /\ \E present \in Dependencies :
          /\ city_map_ok = present.city_map
          /\ plz_map_ok = present.plz_map
          /\ city_pop_ok = present.city_pop
          /\ caches_exist = present.caches
          /\ seeds_found = present.seeds
    /\ coords = (IF seeds_found THEN ExportSeeds.coords ELSE <<>>)
    /\ pop = (IF seeds_found THEN ExportSeeds.pop ELSE <<>>)
    /\ events = EventColumns(Len(df))
    /\ meta = <<>>
    /\ run = 1
    /\ prev = <<>>
    /\ merge_map = [c \in {"100"} |-> "Berlin"]
    /\ txn = << [plz_three_digits |-> "100", customer_id |-> 1, revenue |-> 1000,
                 city |-> "Berlin"] >>
    /\ plz_cache = <<>>
    /\ city_cache = <<>>
    /\ city_pop = (IF city_pop_ok THEN SeedCityPop ELSE <<>>)
    /\ city_dff = <<>>
    /\ sort_ties = "none"
    /\ city_tbl = <<>>
    /\ NoPlatform
    /\ NotStarted

\* lines 205-221: the loaders, the metadata, the two empty results
Metadata ==
    /\ pc = "meta"
    /\ meta' = Meta(events)
    /\ pc' = "start"
    /\ UNCHANGED <<Inputs, figures, city_tables, combo, visited, skipped, writes, failed,
                   Page, CityVars, Seeds, Caches, PlatVars, events, run, prev>>

\* what a run hands back, with the order of its assignments
Returned == [writes |-> writes, figures |-> figures, city_tables |-> city_tables, meta |-> meta]

\* main is started again on the same files: every local of the first run is
\* gone, what it wrote to the cache files stays
Rerun ==
    /\ pc = "returned"
    /\ run = 1
    /\ prev' = Returned
    /\ run' = 2
    /\ pc' = "ensure"
    /\ figures' = Empty
    /\ city_tables' = Empty
    /\ combo' = 0
    /\ visited' = <<>>
    /\ skipped' = {}
    /\ writes' = <<>>
    /\ meta' = <<>>
    /\ UNCHANGED <<Inputs, failed, Page, CityVars, Seeds, Caches, PlatVars, events>>

NextExport ==
    \/ EnsureMapCaches
    \/ Metadata
    \/ GenerateMaps
    \/ SkipCombo
    \/ ProcessCombo
    \/ ReturnFigures
    \/ Rerun

ExportSpec == InitExport /\ [][NextExport]_vars

(***************************************************************************)
(* Properties                                                              *)
(***************************************************************************)
\* a view lists index labels of the source, each once, in source order
IsView(v) == \A i, j \in 1..Len(v) : i < j => v[i] < v[j]

\* the two tags that close a key with a filter suffix
KeyRen(k) == k[Len(k)]

KeyFtb(k) == k[Len(k) - 3]

HasFilterSuffix(k) ==
    /\ Len(k) >= 6
    /\ SubSeq(k, Len(k) - 5, Len(k) - 4) = <<U, U>>
    /\ SubSeq(k, Len(k) - 2, Len(k) - 1) = <<U, U>>
    /\ KeyFtb(k) \in {"all", "ftb", "rb"}
    /\ KeyRen(k) \in {"incl", "excl"}

KeyBase(k) == SubSeq(k, 1, Len(k) - 6)

KeySuffix(k) == SubSeq(k, Len(k) - 5, Len(k))

\* rows a combination selects, stated on the source rows
RowsByRenewal(d, ren) == { i \in 1..Len(d) : ren = "excl" => d[i].is_renewal # 1 }

RowsByType(d, ftb) ==
    { i \in 1..Len(d) : IF ftb = "all" THEN TRUE
                        ELSE IF ftb = "ftb" THEN d[i].ftb_rb = "FTB"
                        ELSE d[i].ftb_rb = "RB" }

StrictRows(d, ftb, ren) == RowsByType(d, ftb) \cap RowsByRenewal(d, ren)

Running == pc \in {"loop", "returned"}

FilterKeys == { k \in DOMAIN figures : HasFilterSuffix(k) }

ExpectedOrder ==
    << [ftb |-> "All", ren |-> "Include", suffix |-> <<"_", "_", "all", "_", "_", "incl">>],
       [ftb |-> "All", ren |-> "Exclude", suffix |-> <<"_", "_", "all", "_", "_", "excl">>],
       [ftb |-> "FTB", ren |-> "Include", suffix |-> <<"_", "_", "ftb", "_", "_", "incl">>],
       [ftb |-> "FTB", ren |-> "Exclude", suffix |-> <<"_", "_", "ftb", "_", "_", "excl">>],
       [ftb |-> "RB",  ren |-> "Include", suffix |-> <<"_", "_", "rb", "_", "_", "incl">>],
       [ftb |-> "RB",  ren |-> "Exclude", suffix |-> <<"_", "_", "rb", "_", "_", "excl">>] >>

\* C1: the combinations are entered in the fixed order (All,Include),
\* (All,Exclude), (FTB,Include), (FTB,Exclude), (RB,Include), (RB,Exclude),
\* customer type outermost, and a run that returns has entered exactly these
\* six, each once, with the suffixes __all__incl .. __rb__excl in that order.
C1_EnumerationOrder ==
    /\ Running => /\ Len(visited) <= Len(ExpectedOrder)
                  /\ visited = SubSeq(ExpectedOrder, 1, Len(visited))
                  /\ pc = "loop" => Len(visited) = combo - 1
    /\ pc = "returned" => visited = ExpectedOrder

C1_Witness == pc = "returned" /\ Len(visited) = 6 /\ skipped # {}

\* C2 (as stated): the base view handed to a metric function holds every
\* row of the source, also when renewals are excluded.
C2_BaseFullyUnfiltered ==
    Running => \A k \in FilterKeys :
                  "df_base" \in figures[k].passes => figures[k].df_base = AllRows(df)

\* C2 (amended): the base view is never narrowed by customer type; it holds
\* every source row under Include and exactly the rows whose is_renewal is
\* not 1 under Exclude.
C2_BaseRenewalOnly ==
    Running => \A k \in FilterKeys :
                  "df_base" \in figures[k].passes =>
                      /\ IsView(figures[k].df_base)
                      /\ SetOf(figures[k].df_base) = RowsByRenewal(df, KeyRen(k))

C2_Witness ==
    /\ Running
    /\ \E k \in FilterKeys :
          /\ "df_base" \in figures[k].passes
          /\ KeyRen(k) = "excl" /\ KeyFtb(k) = "ftb"
          /\ Len(figures[k].df_base) < Len(df)
          /\ Len(figures[k].df_base) >= 1
          /\ \E r \in 1..Len(df) : df[r].is_renewal = 1 /\ r \notin SetOf(figures[k].df_base)

\* C3: the strict view of a combination is exactly the source rows of the
\* selected customer type (all rows for All) that, under Exclude, have
\* is_renewal other than 1; Include removes no row for its renewal flag.
\* A skipped combination is one whose strict view has no row.
C3_StrictView ==
    Running =>
        /\ \A k \in FilterKeys :
              /\ IsView(figures[k].dff)
              /\ SetOf(figures[k].dff) = StrictRows(df, KeyFtb(k), KeyRen(k))
        /\ \A s \in skipped : StrictRows(df, KeyFtb(s), KeyRen(s)) = {}

C3_Witness ==
    /\ Running
    /\ \E k \in FilterKeys :
          /\ KeyFtb(k) = "rb" /\ KeyRen(k) = "excl"
          /\ Len(figures[k].dff) = 1
          /\ \E i \in 1..Len(df) : df[i].ftb_rb = "RB" /\ df[i].is_renewal = 1
    /\ \E k \in FilterKeys :
          /\ KeyFtb(k) = "rb" /\ KeyRen(k) = "incl"
          /\ Len(figures[k].dff) = 2

\* C4: the renewal_only view is the source filtered by the renewal axis
\* alone, the same for All, FTB and RB under one renewal choice, and it is
\* the view passed as df_all to the first-time-share metric.
C4_RenewalOnlyDenominator ==
    Running =>
        /\ \A k \in FilterKeys :
              "df_all" \in figures[k].passes =>
                  /\ IsView(figures[k].df_all)
                  /\ SetOf(figures[k].df_all) = RowsByRenewal(df, KeyRen(k))
        /\ \A ren \in {"incl", "excl"} :
              Cardinality({ figures[k].df_all :
                              k \in { x \in FilterKeys : "df_all" \in figures[x].passes
                                                          /\ KeyRen(x) = ren } }) <= 1
        /\ \A k \in FilterKeys :
              KeyBase(k) \in {<<"fts", "_", "6band">>, <<"fts", "_", "3tier">>} =>
                  /\ figures[k].fn = "chart_acq_metric"
                  /\ figures[k].metric = <<"fts", "_", "pct">>
                  /\ "df_all" \in figures[k].passes
                  /\ SetOf(figures[k].df_all) = RowsByRenewal(df, KeyRen(k))

C4_Witness ==
    /\ Running
    /\ \E k \in FilterKeys :
          /\ KeyBase(k) = <<"fts", "_", "6band">>
          /\ KeyFtb(k) = "ftb"
          /\ figures[k].df_all # figures[k].dff

TagOfLabel(c) == [All |-> "all", FTB |-> "ftb", RB |-> "rb"][c.ftb]

RenOfLabel(c) == [Include |-> "incl", Exclude |-> "excl"][c.ren]

KeysWithSuffix(sfx) == { k \in DOMAIN figures : EndsWith(k, sfx) }

\* C5: a combination whose strict view is empty is skipped and only it:
\* the registry and the city tables hold no entry with its suffix, every
\* combination with rows gets its results, and a run that returns has gone
\* through all six combinations.
C5_EmptyCombinationSkipped ==
    Running =>
        /\ \A s \in skipped : KeysWithSuffix(s) = {} /\ s \notin DOMAIN city_tables
        /\ \A n \in 1..Len(visited) :
              IF StrictRows(df, TagOfLabel(visited[n]), RenOfLabel(visited[n])) = {}
              THEN /\ visited[n].suffix \in skipped
                   /\ KeysWithSuffix(visited[n].suffix) = {}
                   /\ visited[n].suffix \notin DOMAIN city_tables
              ELSE /\ visited[n].suffix \notin skipped
                   /\ (<<"act", "_", "by", "_", "house">> \o visited[n].suffix) \in DOMAIN figures
                   /\ Cardinality(KeysWithSuffix(visited[n].suffix)) >= 21
                   /\ city_pop_ok <=> visited[n].suffix \in DOMAIN city_tables
        /\ pc = "returned" => Len(visited) = 6

C5_Witness ==
    /\ pc = "returned"
    /\ \E i, j \in 1..Len(visited) :
          /\ i < j
          /\ visited[i].suffix \in skipped
          /\ visited[j].suffix \notin skipped
          /\ visited[j].suffix \in DOMAIN city_tables

\* the suffix the toggle state selects
LiveSuffix == <<"_", "_">> \o activeState.customer_type \o <<"_", "_">> \o activeState.renewals

\* no div of the page belongs to the combination
MissingOnPage(sfx) == \A e \in DOMAIN divs : ~EndsWith(e, sfx)

\* the panels build_html always renders
FixedPanels == { p \in SetOf(Panels) : p.name # "plat" }

\* C6: in a toggle state that selects a combination with no aggregates,
\* every chart panel shows the "not available" placeholder.
C6_PlaceholderForMissing ==
    (pc = "live" /\ MissingOnPage(LiveSuffix))
        => \A p \in FixedPanels : \E c \in SetOf(p.calls) : c.base \in placeholders

\* C7: a metric call that raises does not end the run.
C7_FailureContained == failed # <<>> => pc # "raised"

\* C8: no registry key is assigned twice in a run: the keys written are
\* pairwise distinct (as strings: words never touch without an underscore
\* between them), so the registry holds one entry per assignment.
C8_NoKeyWrittenTwice ==
    Running =>
        /\ Cardinality(SetOf(writes)) = Len(writes)
        /\ \A i \in 1..Len(writes) :
              \A n \in 1..(Len(writes[i]) - 1) : writes[i][n] = "_" \/ writes[i][n + 1] = "_"
        /\ DOMAIN figures = SetOf(writes)
        /\ Cardinality(DOMAIN figures) = Len(writes)

C8_Witness == pc = "returned" /\ Len(writes) = 142 /\ skipped = {}

Suffixes6 ==
    { <<"_", "_", "all", "_", "_", "incl">>, <<"_", "_", "ftb", "_", "_", "incl">>,
      <<"_", "_", "rb", "_", "_", "incl">>, <<"_", "_", "all", "_", "_", "excl">>,
      <<"_", "_", "ftb", "_", "_", "excl">>, <<"_", "_", "rb", "_", "_", "excl">> }

\* k = <metric>_<groupingTag><sfx> for some non-empty metric
ParsesWith(k, sfx) ==
    /\ EndsWith(k, sfx)
    /\ Len(k) - Len(sfx) >= 3
    /\ k[Len(k) - Len(sfx)] \in {"6band", "3tier"}
    /\ k[Len(k) - Len(sfx) - 1] = "_"
    /\ k[1] # "_"

\* C9 (as stated): every registry key parses as
\* <metric>_<groupingTag><filterSuffix>, groupingTag in {6band, 3tier},
\* filterSuffix empty or one of the six __<type>__<renewal>.
C9_KeysParseable ==
    Running => \A k \in DOMAIN figures : \E sfx \in Suffixes6 \cup {<<>>} : ParsesWith(k, sfx)

\* C9 (amended): every registry key is <metric>_<groupingTag><filterSuffix>
\* with one of the six non-empty suffixes, or act_by_house<filterSuffix>
\* (no grouping tag), or one of the four map keys (no grouping tag, no
\* suffix).
C9_KeyGrammar ==
    Running =>
        \A k \in DOMAIN figures :
            \/ \E sfx \in Suffixes6 : ParsesWith(k, sfx)
            \/ \E sfx \in Suffixes6 : k = <<"act", "_", "by", "_", "house">> \o sfx
            \/ k \in { <<"city", "_", "map", "_", "pop">>,
                       <<"plz", "_", "map", "_", "customers">>,
                       <<"plz", "_", "map", "_", "rev", "_", "per", "_", "1k">>,
                       <<"plz", "_", "map", "_", "activation">> }

C9_Witness ==
    /\ pc = "returned"
    /\ <<"act", "_", "by", "_", "house", "_", "_", "rb", "_", "_", "excl">> \in DOMAIN figures
    /\ <<"plz", "_", "map", "_", "rev", "_", "per", "_", "1k">> \in DOMAIN figures
    /\ <<"comp", "_", "spc", "_", "3tier", "_", "_", "ftb", "_", "_", "incl">> \in DOMAIN figures
    /\ <<"platform", "_", "6band", "_", "_", "all", "_", "_", "incl">> \in DOMAIN figures

\* the key of a wrap_ div
KeyOfDiv(e) == SubSeq(e, 3, Len(e))

FilterDivs == { e \in DOMAIN divs : HasFilterSuffix(KeyOfDiv(e)) }

LastWord(k) == KeyBase(k)[Len(KeyBase(k))]

IsVolumeKey(k) ==
    Len(KeyBase(k)) = 5 /\ KeyBase(k)[1] = "comp" /\ KeyBase(k)[3] \in {"customers", "revenue", "spc"}

IsActivationKey(k) ==
    Len(KeyBase(k)) = 5 /\ KeyBase(k)[1] = "act" /\ KeyBase(k)[3] \in {"weekly", "cumul"}

\* the chart family a key is a variant of
FamilyOf(k) ==
    IF IsVolumeKey(k) THEN <<"comp", "volume">>
    ELSE IF IsActivationKey(k) THEN <<"act", "mode">>
    ELSE IF LastWord(k) \in {"6band", "3tier"} THEN SubSeq(KeyBase(k), 1, Len(KeyBase(k)) - 2)
    ELSE KeyBase(k)

MatchesFilters(k) ==
    /\ KeySuffix(k) = LiveSuffix
    /\ IsVolumeKey(k) => <<KeyBase(k)[3]>> = activeState.vol_metric
    /\ IsActivationKey(k) => <<KeyBase(k)[3]>> = activeState.act_mode

\* C10 (as stated): a filter-dependent div is visible exactly when its
\* suffix is that of the toggle state, its grouping tag (the word before the
\* suffix) is color_mode and, for volume and activation charts, its metric
\* or mode is the selected one.
C10_VisibleIffMatches ==
    pc = "live" =>
        \A e \in FilterDivs :
            divs[e] <=> (MatchesFilters(KeyOfDiv(e)) /\ <<LastWord(KeyOfDiv(e))>> = activeState.color_mode)

\* C10 (amended): as stated for every div whose key carries a grouping tag;
\* an act_by_house div, which carries none, is visible exactly when its
\* suffix is that of the toggle state, whatever color_mode is.  Of each
\* chart family at most one variant is visible.
C10_VisibleIffMatchesOrUngrouped ==
    pc = "live" =>
        /\ \A e \in FilterDivs :
              divs[e] <=>
                  /\ MatchesFilters(KeyOfDiv(e))
                  /\ \/ <<LastWord(KeyOfDiv(e))>> = activeState.color_mode
                     \/ KeyBase(KeyOfDiv(e)) = <<"act", "_", "by", "_", "house">>
        /\ \A e1, e2 \in { e \in DOMAIN divs : divs[e] /\ HasFilterSuffix(KeyOfDiv(e)) } :
              FamilyOf(KeyOfDiv(e1)) = FamilyOf(KeyOfDiv(e2)) => e1 = e2

ShownOnPage(key) == (<<"wrap", "_">> \o key) \in DOMAIN divs /\ divs[<<"wrap", "_">> \o key]

HiddenOnPage(key) == (<<"wrap", "_">> \o key) \in DOMAIN divs /\ ~divs[<<"wrap", "_">> \o key]

C10_Witness ==
    /\ pc = "live"
    /\ clicks = 2
    /\ activeState.customer_type = <<"rb">>
    /\ activeState.color_mode = <<"3tier">>
    /\ ShownOnPage(<<"comp", "_", "customers", "_", "3tier", "_", "_", "rb", "_", "_", "incl">>)
    /\ ShownOnPage(<<"act", "_", "by", "_", "house", "_", "_", "rb", "_", "_", "incl">>)
    /\ HiddenOnPage(<<"comp", "_", "customers", "_", "6band", "_", "_", "rb", "_", "_", "incl">>)
    /\ HiddenOnPage(<<"comp", "_", "revenue", "_", "3tier", "_", "_", "rb", "_", "_", "incl">>)
    /\ HiddenOnPage(<<"comp", "_", "customers", "_", "3tier", "_", "_", "all", "_", "_", "incl">>)

\* the cities of the inner join, stated on the two inputs
JoinCities ==
    { c \in { city_pop[i].city : i \in 1..Len(city_pop) } :
        \E j \in 1..Len(city_dff) : city_dff[j].city = c }

PopOf(c) == city_pop[CHOOSE i \in 1..Len(city_pop) : city_pop[i].city = c].population

TableCities == { city_tbl[i].city : i \in 1..Len(city_tbl) }

CustomerIds(c) == { city_dff[j].customer_id : j \in { x \in 1..Len(city_dff) : city_dff[x].city = c } }

\* C11: the city table holds cities of the inner join of the population
\* file with the strict view, each once with its population, in
\* non-increasing population order, at most 20 of them (all of the join when
\* it has fewer), and a city of the join with a larger population than a
\* city of the table is in the table too, whatever the customer counts.
C11_CityTableByPopulation ==
    pc = "city_done" =>
        /\ Len(city_tbl) = (IF Cardinality(JoinCities) < 20 THEN Cardinality(JoinCities) ELSE 20)
        /\ TableCities \subseteq JoinCities
        /\ Cardinality(TableCities) = Len(city_tbl)
        /\ \A i \in 1..Len(city_tbl) : city_tbl[i].population = PopOf(city_tbl[i].city)
        /\ \A i \in 1..(Len(city_tbl) - 1) : city_tbl[i].population >= city_tbl[i + 1].population
        /\ \A c1 \in TableCities : \A c2 \in JoinCities :
              PopOf(c2) > PopOf(c1) => c2 \in TableCities

\* a join of more than 20 cities: a city left out has more customers than
\* one that is kept
C11_Witness ==
    /\ pc = "city_done"
    /\ Len(city_tbl) = 20
    /\ \E c \in JoinCities \ TableCities :
          \E i \in 1..Len(city_tbl) : Cardinality(CustomerIds(c)) > city_tbl[i].customers

\* h hundredths is x / (population / 1000) to the nearest hundredth
NearestHundredth(h, x, population) ==
    /\ 2 * (h * population - x * 100000) <= population
    /\ 2 * (x * 100000 - h * population) <= population

\* C12: in every row customers is the number of distinct customer ids of
\* the city in the strict view and revenue their summed revenue; with a
\* population above 0, activation and rev_per_1k are customers and revenue
\* per 1000 inhabitants to 2 decimals.  For A (100000, 50 customers, revenue
\* 1000) and B (50000, 200 customers, revenue 5000): A comes first,
\* activation of A is 0.50 and rev_per_1k of B is 100.00.
C12_CityRatios ==
    pc = "city_done" =>
        /\ \A i \in 1..Len(city_tbl) :
              /\ city_tbl[i].customers = Cardinality(CustomerIds(city_tbl[i].city))
              /\ city_tbl[i].revenue = SumRevenue(city_dff, city_tbl[i].city)
              /\ city_tbl[i].population > 0 =>
                    /\ city_tbl[i].activation.kind = "num"
                    /\ city_tbl[i].rev_per_1k.kind = "num"
                    /\ NearestHundredth(city_tbl[i].activation.hundredths,
                                        city_tbl[i].customers, city_tbl[i].population)
                    /\ NearestHundredth(city_tbl[i].rev_per_1k.hundredths,
                                        city_tbl[i].revenue, city_tbl[i].population)
        /\ (city_pop = ExamplePop /\ city_dff = ExampleDff) =>
              /\ Len(city_tbl) = 2
              /\ city_tbl[1].city = "A" /\ city_tbl[2].city = "B"
              /\ city_tbl[1].customers = 50 /\ city_tbl[1].revenue = 1000
              /\ city_tbl[2].customers = 200 /\ city_tbl[2].revenue = 5000
              /\ city_tbl[1].activation = [kind |-> "num", hundredths |-> 50]
              /\ city_tbl[2].rev_per_1k = [kind |-> "num", hundredths |-> 10000]

C12_Witness ==
    /\ pc = "city_done"
    /\ city_pop = ExamplePop
    /\ city_dff = ExampleDff
    /\ city_tbl[1].city = "A"
    /\ city_tbl[2].activation.hundredths = 400

\* C13: a row of a city of population 0 has activation and rev_per_1k zero
\* or null, never infinite.
C13_ZeroPopulationZeroOrNull ==
    pc = "city_done" =>
        \A i \in 1..Len(city_tbl) :
            city_tbl[i].population = 0 =>
                /\ city_tbl[i].activation.kind \in {"num", "nan"}
                /\ city_tbl[i].activation.hundredths = 0
                /\ city_tbl[i].rev_per_1k.kind \in {"num", "nan"}
                /\ city_tbl[i].rev_per_1k.hundredths = 0

\* ensure_map_caches has built and written the two caches
Built == pc = "meta" /\ plz_cache # <<>>

RECURSIVE TotalFrom(_, _)
TotalFrom(numbers, i) == IF i > Len(numbers) THEN 0 ELSE numbers[i] + TotalFrom(numbers, i + 1)

Total(numbers) == TotalFrom(numbers, 1)

\* the canonical key of a postal code under the merge table
CanonicalKey(c) == IF c \in DOMAIN merge_map THEN merge_map[c] ELSE c

\* population of the postal group of coords row i; 0 when it has no
\* population row
WeightOf(i) ==
    LET rows == { j \in 1..Len(pop) : pop[j].plz_three_digits = coords[i].plz_three_digits }
    IN  IF rows = {} THEN 0 ELSE pop[CHOOSE j \in rows : TRUE].population

\* the city a coords row is aggregated under for the city map
CityKey(i) ==
    LET rows == { j \in 1..Len(pop) : pop[j].plz_three_digits = coords[i].plz_three_digits }
    IN  IF coords[i].plz_three_digits \in DOMAIN merge_map
        THEN merge_map[coords[i].plz_three_digits]
        ELSE IF rows = {} THEN "NaN" ELSE pop[CHOOSE j \in rows : TRUE].plz_ort

\* q is sum(x_i * pop_i) / sum(pop_i) over the coords rows picked by `member`
\* (0 or 1 per row), NaN when the populations add up to 0
IsCentroid(q, x, member) ==
    LET weights  == [i \in 1..Len(coords) |-> member[i] * WeightOf(i)]
        weighted == [i \in 1..Len(coords) |-> member[i] * WeightOf(i) * x[i]]
    IN  IF Total(weights) = 0 THEN q.kind = "nan"
        ELSE q.kind = "num" /\ q.n * Total(weights) = Total(weighted) * q.d

Latitudes == [i \in 1..Len(coords) |-> coords[i].latitude]

Longitudes == [i \in 1..Len(coords) |-> coords[i].longitude]

\* C14: for every group key of the PLZ cache and every city of the city
\* cache that has constituents, latitude and longitude are the
\* population-weighted means of the constituent postal groups, a group
\* without population weighing 0, and NaN when the populations add up to 0.
C14_WeightedCentroid ==
    Built =>
        /\ \A g \in DOMAIN plz_cache :
              LET member == [i \in 1..Len(coords) |->
                                IF CanonicalKey(coords[i].plz_three_digits) = g THEN 1 ELSE 0]
              IN  /\ IsCentroid(plz_cache[g].latitude, Latitudes, member)
                  /\ IsCentroid(plz_cache[g].longitude, Longitudes, member)
        /\ \A c \in DOMAIN city_cache :
              LET member == [i \in 1..Len(coords) |-> IF CityKey(i) = c THEN 1 ELSE 0]
              IN  /\ IsCentroid(city_cache[c].latitude, Latitudes, member)
                  /\ IsCentroid(city_cache[c].longitude, Longitudes, member)

\* two postal groups of different population merged into one city, and a
\* group whose population is 0
C14_Witness ==
    /\ Built
    /\ "Berlin" \in DOMAIN plz_cache
    /\ plz_cache["Berlin"].population = 4000
    /\ plz_cache["Berlin"].latitude.kind = "num"
    /\ plz_cache["Berlin"].latitude.n * 2 # 102 * plz_cache["Berlin"].latitude.d
    /\ "Berlin" \in DOMAIN city_cache
    /\ city_cache["Berlin"].latitude.kind = "num"

\* the coords rows / the transactions that fall under key g
CodesUnder(g) == { i \in 1..Len(coords) : CanonicalKey(coords[i].plz_three_digits) = g }

TxnUnder(g) == { i \in 1..Len(txn) : CanonicalKey(txn[i].plz_three_digits) = g }

\* C20: geo dimension and transactions are normalized to one canonical
\* key: the key under which a postal code's population and coordinates are
\* aggregated is the key under which its transactions are aggregated; every
\* output row carries the population of all postal groups and the distinct
\* customers and revenue of all transactions of its key, so the codes of a
\* merged city end in one row; a normalized key normalizes to itself.
C20_OneCanonicalKey ==
    /\ \A c \in SetOf(CodeList) \cup { merge_map[x] : x \in DOMAIN merge_map } :
          /\ GroupKey(merge_map, c) = CanonicalKey(c)
          /\ ReplaceKey(merge_map, c) = CanonicalKey(c)
          /\ CanonicalKey(CanonicalKey(c)) = CanonicalKey(c)
    /\ Built =>
          /\ DOMAIN plz_cache = { CanonicalKey(coords[i].plz_three_digits) : i \in 1..Len(coords) }
          /\ \A g \in DOMAIN plz_cache :
                /\ plz_cache[g].plz_three_digits = g
                /\ plz_cache[g].population =
                      Total([i \in 1..Len(coords) |-> IF i \in CodesUnder(g) THEN WeightOf(i) ELSE 0])
                /\ plz_cache[g].customers =
                      Cardinality({ txn[i].customer_id : i \in TxnUnder(g) })
                /\ plz_cache[g].revenue =
                      Total([i \in 1..Len(txn) |-> IF i \in TxnUnder(g) THEN txn[i].revenue ELSE 0])

\* both codes of Berlin in the seeds and in the transactions, one row
C20_Witness ==
    /\ Built
    /\ DOMAIN merge_map = {"100", "101"}
    /\ Len(coords) = 2
    /\ DOMAIN plz_cache = {"Berlin"}
    /\ { txn[i].plz_three_digits : i \in 1..Len(txn) } = {"100", "101"}
    /\ plz_cache["Berlin"].customers = 2
    /\ plz_cache["Berlin"].population = 4000

(***************************************************************************)
(* Missing dependencies                                                    *)
(***************************************************************************)
\* the base keys of one combination that depend on no auxiliary table and
\* on no platform being present
CoreBases ==
    LET both(m) == { m \o <<"_", "6band">>, m \o <<"_", "3tier">> }
    IN  UNION { both(m) : m \in { <<"comp", "_", "pct">>, <<"comp", "_", "customers">>,
                                  <<"comp", "_", "revenue">>, <<"comp", "_", "spc">>,
                                  <<"fts">>, <<"ltv">>, <<"pop", "_", "house">>,
                                  <<"act", "_", "weekly">>, <<"act", "_", "cumul">>,
                                  <<"geo", "_", "mix">> } }
    \cup { <<"act", "_", "by", "_", "house">> }

PlzMapKeys == { <<"plz", "_", "map", "_">> \o m :
                  m \in { <<"customers">>, <<"rev", "_", "per", "_", "1k">>, <<"activation">> } }

CityMapKey == <<"city", "_", "map", "_", "pop">>

\* the combinations of the double loop whose strict view has rows
NonEmptyCombos ==
    { n \in 1..Len(ExpectedOrder) :
        StrictRows(df, TagOfLabel(ExpectedOrder[n]), RenOfLabel(ExpectedOrder[n])) # {} }

\* C15: an absent auxiliary table (no city map data, no PLZ map data, no
\* city population file, no seeds directory) takes away exactly the results
\* that depend on it: the city map key, the three PLZ map keys, the city
\* tables, the map caches. It never ends the run, and a run that returns
\* holds every other aggregate of every combination with rows.
C15_MissingDependencyOmitsOnlyDependents ==
    /\ pc # "raised"
    /\ (~seeds_found /\ pc # "ensure") =>
          /\ plz_cache = <<>>
          /\ city_cache = <<>>
          /\ pc \in {"meta", "start", "loop", "returned"}
    /\ pc = "returned" =>
          /\ CityMapKey \in DOMAIN figures <=> city_map_ok
          /\ \A k \in PlzMapKeys : k \in DOMAIN figures <=> plz_map_ok
          /\ \A n \in NonEmptyCombos :
                /\ \A b \in CoreBases : (b \o ExpectedOrder[n].suffix) \in DOMAIN figures
                /\ ExpectedOrder[n].suffix \in DOMAIN city_tables <=> city_pop_ok
          /\ meta # <<>>

\* every dependency is absent and the run returns all 138 other aggregates
C15_Witness ==
    /\ pc = "returned"
    /\ ~city_map_ok /\ ~plz_map_ok /\ ~city_pop_ok
    /\ ~seeds_found /\ ~caches_exist
    /\ Cardinality(NonEmptyCombos) = 6
    /\ Cardinality(DOMAIN figures) = 138
    /\ city_tables = Empty

CompleteRows ==
    { i \in 1..Len(plat_dff) :
        plat_dff[i].channel_type # "NULL" /\ plat_dff[i].platform # "NULL" }

\* the candidate platforms present among them
PresentCandidates ==
    { plat_dff[i].platform : i \in CompleteRows } \cap {"Meta", "Google", "Direct", "Organic"}

\* the distinct customers of one "channel | platform" value
CustomersOf(c) ==
    Cardinality({ plat_dff[i].customer_id :
                    i \in { j \in CompleteRows :
                              plat_dff[j].channel_type = c[1] /\ plat_dff[j].platform = c[3] } })

\* C17: the two platform keys of a combination are assigned exactly when a
\* candidate platform (Meta, Google, Direct, Organic) occurs among the rows
\* of the strict view that have a channel type and a platform; the selection
\* passed with them lists, once each and without a cap, every
\* "channel | platform" value of those rows whose platform is a candidate,
\* in falling order of distinct customers.
C17_PlatformSelection ==
    pc = "platform_done" =>
        /\ { plat_out[n].key : n \in 1..Len(plat_out) } =
              (IF PresentCandidates # {}
               THEN { <<"platform", "_", "6band", "_", "_", "all", "_", "_", "incl">>,
                      <<"platform", "_", "3tier", "_", "_", "all", "_", "_", "incl">> }
               ELSE {})
        /\ Len(plat_out) \in {0, 2}
        /\ \A n \in 1..Len(plat_out) :
              \E sel \in {plat_out[n].selected_platforms} :
                  /\ SetOf(sel) = { <<plat_dff[i].channel_type, " | ", plat_dff[i].platform>> :
                                      i \in { j \in CompleteRows :
                                                plat_dff[j].platform \in PresentCandidates } }
                  /\ Cardinality(SetOf(sel)) = Len(sel)
                  /\ \A i \in 1..(Len(sel) - 1) : CustomersOf(sel[i]) >= CustomersOf(sel[i + 1])
                  /\ plat_out[n].dff = plat_dff

\* two candidate platforms are selected, the one with more customers first,
\* against the order of the group keys
C17_Witness ==
    /\ pc = "platform_done"
    /\ Len(plat_out) = 2
    /\ plat_out[1].selected_platforms = << <<"Paid", " | ", "Meta">>, <<"Paid", " | ", "Google">> >>
    /\ CustomersOf(<<"Paid", " | ", "Meta">>) = 2

(***************************************************************************)
(* Maps                                                                    *)
(***************************************************************************)
MapKeys == {CityMapKey} \cup PlzMapKeys

IsMapDiv(e) ==
    \/ e = <<"wrap", "_">> \o CityMapKey
    \/ StartsWith(e, <<"wrap", "_", "plz", "_", "map", "_">>)

\* the display the map toggle alone gives a map div
MapDivExpected(e, st) ==
    \/ e = <<"wrap", "_">> \o CityMapKey
    \/ e = <<"wrap", "_", "plz", "_", "map", "_">> \o st.map_metric

\* the maps are assigned once, ahead of every combination, under keys with
\* no filter suffix, and the PLZ maps are handed the unfiltered dataset; on
\* the live page the city map is shown and a PLZ map is shown exactly when
\* it is the one the map toggle selects
C18_MapState ==
    /\ Running =>
          /\ \A k \in MapKeys :
                /\ k \in DOMAIN figures <=> (IF k = CityMapKey THEN city_map_ok ELSE plz_map_ok)
                /\ Cardinality({ i \in 1..Len(writes) : writes[i] = k }) =
                      (IF k \in DOMAIN figures THEN 1 ELSE 0)
                /\ ~HasFilterSuffix(k)
          /\ \A i \in 1..Len(writes) :
                writes[i] \in MapKeys <=> i <= Cardinality(MapKeys \cap DOMAIN figures)
          /\ \A k \in PlzMapKeys \cap DOMAIN figures :
                /\ figures[k].dff = AllRows(df)
                /\ figures[k].passes = {"filtered_df"}
    /\ pc = "live" =>
          \A e \in DOMAIN divs : IsMapDiv(e) => (divs[e] <=> MapDivExpected(e, activeState))

\* a click that leaves map_metric as it was changes the display of no map div
C18_MapFrame ==
    (pc = "live" /\ pc' = "live" /\ activeState'.map_metric = activeState.map_metric)
        => \A e \in DOMAIN divs : IsMapDiv(e) => divs'[e] = divs[e]

\* C18: the map results are independent of the filters: computed once from
\* the unfiltered dataset under keys without a filter suffix, and toggling
\* customer_type, renewals, color_mode, vol_metric or act_mode leaves the
\* display of every map div as it was (the city map always shown, the PLZ
\* map of metric m shown exactly when m is the selected map_metric).
C18_MapsFilterIndependent == []C18_MapState /\ [][C18_MapFrame]_vars

\* the map toggle selects rev_per_1k, the volume toggle something else, and
\* all four map divs are on the page
C18_Witness ==
    /\ pc = "live"
    /\ clicks = 2
    /\ activeState.map_metric = <<"rev", "_", "per", "_", "1k">>
    /\ activeState.vol_metric = <<"revenue">>
    /\ Cardinality({ e \in DOMAIN divs : IsMapDiv(e) }) = 4
    /\ divs[<<"wrap", "_", "plz", "_", "map", "_", "rev", "_", "per", "_", "1k">>]
    /\ ~divs[<<"wrap", "_", "plz", "_", "map", "_", "customers">>]

(***************************************************************************)
(* The static page and the first pass of the script                        *)
(***************************************************************************)
\* C19: the display build_html writes into the document for every chart div
\* and every city table is the display applyVisibility computes under the
\* initial activeState (6band, customers, weekly, customers, all, incl):
\* the pass run on page load changes the display of nothing, whatever keys
\* the registry holds.
C19_StaticMatchesFirstPass ==
    pc = "page" =>
        /\ activeState = [color_mode |-> <<"6band">>, vol_metric |-> <<"customers">>,
                          act_mode |-> <<"weekly">>, map_metric |-> <<"customers">>,
                          customer_type |-> <<"all">>, renewals |-> <<"incl">>]
        /\ \A e \in DOMAIN divs :
              DivShown(e, divs[e], activeState, FilterSuffix(activeState)) = divs[e]
        /\ \A t \in DOMAIN tables : TableShown(t, FilterSuffix(activeState)) = tables[t]

\* a full page before the load event: all 142 divs, some shown and some
\* hidden, and six city tables
C19_Witness ==
    /\ pc = "page"
    /\ Cardinality(DOMAIN divs) = 142
    /\ Cardinality({ e \in DOMAIN divs : divs[e] }) = 11
    /\ Cardinality(DOMAIN tables) = 6
    /\ \E t \in DOMAIN tables : ~tables[t]

====
